---- MODULE Spec2Model ----
(***************************************************************************)
(* Conference backend (backend-ITC): the registration handlers, the auth   *)
(* middleware and the login handler, over a Firestore-like document store  *)
(* and a Firebase-Auth-like identity provider.                             *)
(*                                                                         *)
(* Every handler is split at its store calls: one action per store call,   *)
(* the code between two store calls belonging to the action of the later   *)
(* call's predecessor.  Requests run in the slots of Reqs, so two requests  *)
(* are in flight at once and interleave at store-call grain.               *)
(***************************************************************************)
EXTENDS Integers, Sequences, FiniteSets, TLC

\* ---------------------------------------------------------------- bounds
MaxDocs == 2
MaxTime == 2
MaxHeader == 3

\* The request slots: two requests in flight at once.
Reqs == {"a", "b"}
DocIds == 1..MaxDocs
Subjects == {"u1", "u2"}

\* ------------------------------------------------------------- optionals
None == <<>>
Some(x) == <<x>>

\* ---------------------------------------------------------- HTTP statuses
StatusOK == 200
StatusCreated == 201
StatusBadRequest == 400
StatusUnauthorized == 401
StatusNotFound == 404
StatusConflict == 409
StatusInternalServerError == 500

\* ------------------------------------------------------------ error texts
NoErr == ""
StoreErr == "rpc error: code = Unavailable"
IterDone == "no more items in iterator"
DecodeErr == "firestore: cannot set type"
BindErr == "Key: 'RegistrationInput' Error:Field validation"

\* A stored timestamp that is not a timestamp (a document some other writer
\* left in the collection); time.Time's zero value is 0, the clock starts at 1.
BadTime == -1
ZeroTime == 0

VARIABLES
  registrations,  \* collection "registrations": document id -> document (a field map)
  usedIds,        \* auto-ids the store has handed out so far
  users,          \* collection "users": document id -> document
  clock,          \* time.Now()
  req,            \* the request in each slot: handler, position, locals, response
  out,            \* the response the last step sent, if it sent one, and the subject's outcome before it
  lastDone,       \* history: per subject, handler and status of its last response
  mw,             \* what the auth middleware's last run left behind
  client          \* firebase.Client: its Firestore client, closeOnce, closeErr, and the calls of Close

vars == <<registrations, usedIds, users, clock, req, out, lastDone, mw, client>>

\* ------------------------------------------------- models.RegistrationInput
\* binding:"required" on FirstName, LastName, Email, Country, TicketType;
\* binding:"email" on Email.  An e-mail address is a sequence of parts.
IsEmail(e) == Len(e) = 3 /\ e[1] # "" /\ e[2] = "@" /\ e[3] # ""

MkInput(first, email, city) ==
  [firstName |-> first, lastName |-> "Lovelace", email |-> email, phone |-> "",
   organization |-> "", jobTitle |-> "", country |-> "UK", city |-> city,
   dietaryRequirements |-> "", specialNeeds |-> "", ticketType |-> "standard",
   sessionsOfInterest |-> <<>>]

GoodEmail == <<"ada", "@", "example.com">>
Inputs ==
  { MkInput("Ada", GoodEmail, ""),
    MkInput("Ada", GoodEmail, "London"),
    MkInput("", GoodEmail, ""),
    MkInput("Ada", <<"ada.example.com">>, "") }

\* A binding that checks the required fields and not the e-mail's format.
ShouldBindJSONLax(input) ==
  /\ input.firstName # ""
  /\ input.lastName # ""
  /\ input.email # <<>>
  /\ input.country # ""
  /\ input.ticketType # ""

ShouldBindJSON(input) ==
  /\ input.firstName # ""
  /\ input.lastName # ""
  /\ input.email # <<>>
  /\ IsEmail(input.email)
  /\ input.country # ""
  /\ input.ticketType # ""

\* ---------------------------------------------------- models.Registration
TimeFields == {"registrationDate", "createdAt", "updatedAt"}
RegFields ==
  {"userId", "firstName", "lastName", "email", "phone", "organization", "jobTitle",
   "country", "city", "dietaryRequirements", "specialNeeds", "ticketType",
   "sessionsOfInterest", "paymentStatus", "registrationDate", "createdAt", "updatedAt"}

ZeroOf(f) ==
  IF f \in TimeFields THEN ZeroTime
  ELSE IF f \in {"email", "sessionsOfInterest"} THEN <<>>
  ELSE ""

\* doc.DataTo(&registration): fails on a field of the wrong type, leaves the
\* zero value in a field the document does not have, never fills ID.
Decodable(doc) == \A f \in TimeFields \cap DOMAIN doc : doc[f] >= 0

DataTo(doc) == [f \in RegFields |-> IF f \in DOMAIN doc THEN doc[f] ELSE ZeroOf(f)]

\* registration.ID = doc.Ref.ID
WithID(reg, id) == [f \in RegFields \cup {"id"} |-> IF f = "id" THEN id ELSE reg[f]]

\* ------------------------------------------------------ Firestore, writes
\* A store with a uniqueness constraint on userId, which Firestore has not:
\* the new document takes the place of the owner's documents.
StoreAddUnique(coll, id, doc) ==
  LET same == {d \in DOMAIN coll :
                 /\ "userId" \in DOMAIN doc /\ "userId" \in DOMAIN coll[d]
                 /\ coll[d]["userId"] = doc["userId"]}
  IN  [d \in (DOMAIN coll \ same) \cup {id} |-> IF d = id THEN doc ELSE coll[d]]

\* A write that keeps the createdAt of the document it replaces, as an
\* upsert inside a transaction would.
StoreAddKeepingCreatedAt(coll, id, doc) ==
  [d \in DOMAIN coll \cup {id} |->
     IF d # id THEN coll[d]
     ELSE IF id \in DOMAIN coll /\ "createdAt" \in DOMAIN coll[id] \cap DOMAIN doc
       THEN [doc EXCEPT !.createdAt = coll[id].createdAt]
       ELSE doc]

\* Collection.Add under a fresh auto-id, Doc(id).Set without merge: the
\* document under id is doc.
StoreAdd(coll, id, doc) == [d \in DOMAIN coll \cup {id} |-> IF d = id THEN doc ELSE coll[d]]

\* Doc(id).Set(updates, MergeAll): overwrite the given fields; the document
\* is created from the given fields alone when it does not exist.
StoreSetMerge(coll, id, updates) ==
  LET old == IF id \in DOMAIN coll THEN coll[id] ELSE [f \in {} |-> ""]
      new == [f \in DOMAIN old \cup DOMAIN updates |->
                IF f \in DOMAIN updates THEN updates[f] ELSE old[f]]
  IN  [d \in DOMAIN coll \cup {id} |-> IF d = id THEN new ELSE coll[d]]

\* Doc(id).Delete: succeeds whether or not the document exists.
StoreDelete(coll, id) == [d \in DOMAIN coll \ {id} |-> coll[d]]

\* ------------------------------------------------- getUserRegistration
\* The last match in document-id order rather than the first.
Last(S) == CHOOSE x \in S : \A y \in S : x >= y

Min(S) == CHOOSE x \in S : \A y \in S : x <= y

\* A query without the filter on userId.
MatchingAny(regs, userID) == DOMAIN regs

\* Where("userId", "==", userID)
Matching(regs, userID) ==
  {d \in DOMAIN regs : "userId" \in DOMAIN regs[d] /\ regs[d]["userId"] = userID}

\* Limit(1).Documents(ctx); iter.Next(): the first match in document-id
\* order, iterator.Done when there is none, the store's error when it fails.
getUserRegistration(regs, userID, up) ==
  IF ~up THEN [reg |-> None, err |-> StoreErr]
  ELSE IF Matching(regs, userID) = {} THEN [reg |-> None, err |-> IterDone]
  ELSE LET d == Min(Matching(regs, userID)) IN
       IF ~Decodable(regs[d]) THEN [reg |-> None, err |-> DecodeErr]
       ELSE [reg |-> Some(WithID(DataTo(regs[d]), d)), err |-> NoErr]

\* ------------------------------------------------------------- requests
\* A slot holds a request from its arrival to its response; the response is
\* then handed to the client (lastDone) and the slot is free again.  calls
\* is the record of the store calls made for the request, each with whether
\* it succeeded.
Idle == [op |-> "idle", pc |-> "idle", uid |-> "", input |-> None, existingID |-> 0,
         now |-> ZeroTime, user |-> None, calls |-> <<>>]

Free(r) == req[r].pc = "idle"

\* A request arrives for subject s (c.Get("user") as RequireAuth set it).
Arrive(op, s, input) == [Idle EXCEPT !.op = op, !.uid = s, !.input = input]

\* c.JSON(status, RegistrationResponse{Message: message, Registration: body})
Response(op, status, message, body) ==
  [op |-> op, status |-> status, message |-> message, body |-> body]

\* The request q has made the store call name, which succeeded or not.
Call(q, name, ok) == [q EXCEPT !.calls = Append(@, <<name, ok>>)]

\* The response resp as the client of request q gets it: with the subject,
\* the subject's outcome before it, the body the request carried and the
\* store calls made for it.
Sent(q, resp) ==
  Some([uid |-> q.uid, prev |-> lastDone[q.uid], input |-> q.input, calls |-> q.calls]
         @@ resp)

\* The request in slot r goes on as q.
Continue(r, q) ==
  /\ req' = [req EXCEPT ![r] = q]
  /\ out' = None

\* The request q in slot r ends with response resp.
Respond(r, q, resp) ==
  /\ req' = [req EXCEPT ![r] = Idle]
  /\ out' = Sent(q, resp)

\* ------------------------------------------------- CreateRegistration
\* A registration born paid.
NewRegistrationPaid(uid, input, now) ==
  [userId |-> uid, firstName |-> input.firstName, lastName |-> input.lastName,
   email |-> input.email, phone |-> input.phone, organization |-> input.organization,
   jobTitle |-> input.jobTitle, country |-> input.country, city |-> input.city,
   dietaryRequirements |-> input.dietaryRequirements,
   specialNeeds |-> input.specialNeeds, ticketType |-> input.ticketType,
   sessionsOfInterest |-> input.sessionsOfInterest, paymentStatus |-> "completed",
   registrationDate |-> now, createdAt |-> now, updatedAt |-> now]

NewRegistration(uid, input, now) ==
  [userId |-> uid, firstName |-> input.firstName, lastName |-> input.lastName,
   email |-> input.email, phone |-> input.phone, organization |-> input.organization,
   jobTitle |-> input.jobTitle, country |-> input.country, city |-> input.city,
   dietaryRequirements |-> input.dietaryRequirements,
   specialNeeds |-> input.specialNeeds, ticketType |-> input.ticketType,
   sessionsOfInterest |-> input.sessionsOfInterest, paymentStatus |-> "pending",
   registrationDate |-> now, createdAt |-> now, updatedAt |-> now]

\* A step of a handler ends the request q with a response or leaves it at
\* its next store call.
Ends(q, resp) == [resp |-> Some(resp), next |-> q]
GoesOn(q) == [resp |-> None, next |-> q]

Take(r, step) ==
  IF step.resp # None THEN Respond(r, step.next, Head(step.resp))
                      ELSE Continue(r, step.next)

\* A create without the existence check.
CreateCheckStepUnchecked(s, input, up) ==
  IF ~ShouldBindJSON(input)
    THEN Ends(Arrive("create", s, Some(input)),
              Response("create", StatusBadRequest, <<"Invalid request: ", BindErr>>, None))
    ELSE GoesOn([Arrive("create", s, Some(input)) EXCEPT !.pc = "add", !.now = clock])

\* Bind the body, look the subject's registration up (its error dropped),
\* answer 409 when one came back, else build the registration with now.
CreateCheckStep(s, input, up) ==
  LET q == Arrive("create", s, Some(input))
      look == getUserRegistration(registrations, s, up)
      looked == Call(q, "registrations.Query", up)
  IN  IF ~ShouldBindJSON(input)
        THEN Ends(q, Response("create", StatusBadRequest,
                              <<"Invalid request: ", BindErr>>, None))
      ELSE IF look.reg # None
        THEN Ends(looked,
                  Response("create", StatusConflict,
                           <<"User already has a registration. Please update instead.">>,
                           look.reg))
      ELSE GoesOn([looked EXCEPT !.pc = "add", !.now = clock])

CreateCheck(r, s, input, up) ==
  /\ Free(r)
  /\ Take(r, CreateCheckStep(s, input, up))
  /\ UNCHANGED <<registrations, usedIds, users, clock, mw, client>>

\* Collection("registrations").Add, then 201 with the store's id, or 500.
CreateAdd(r, up) ==
  /\ req[r].op = "create" /\ req[r].pc = "add"
  /\ LET q == Call(req[r], "registrations.Add", up)
         registration == NewRegistration(q.uid, Head(q.input), q.now)
     IN  IF up
           THEN \E id \in DocIds \ usedIds :
                  /\ registrations' = StoreAdd(registrations, id, registration)
                  /\ usedIds' = usedIds \cup {id}
                  /\ Respond(r, q,
                             Response("create", StatusCreated,
                                      <<"Registration created successfully">>,
                                      Some(WithID(registration, id))))
           ELSE /\ UNCHANGED <<registrations, usedIds>>
                /\ Respond(r, q,
                           Response("create", StatusInternalServerError,
                                    <<"Failed to create registration: ", StoreErr>>, None))
  /\ UNCHANGED <<users, clock, mw, client>>

\* ------------------------------------------------- GetMyRegistration
GetMyStep(s, up) ==
  LET look == getUserRegistration(registrations, s, up) IN
  IF look.err # NoErr
    THEN Response("get", StatusNotFound, <<"Registration not found">>, None)
    ELSE Response("get", StatusOK, <<"Registration retrieved successfully">>, look.reg)

GetMyRegistration(r, s, up) ==
  /\ Free(r)
  /\ Respond(r, Call(Arrive("get", s, None), "registrations.Query", up), GetMyStep(s, up))
  /\ UNCHANGED <<registrations, usedIds, users, clock, mw, client>>

\* ------------------------------------------------- UpdateRegistration
\* An update that stamps createdAt as well.
UpdatesStamping(input, now) ==
  [firstName |-> input.firstName, lastName |-> input.lastName, email |-> input.email,
   phone |-> input.phone, organization |-> input.organization,
   jobTitle |-> input.jobTitle, country |-> input.country, city |-> input.city,
   dietaryRequirements |-> input.dietaryRequirements,
   specialNeeds |-> input.specialNeeds, ticketType |-> input.ticketType,
   sessionsOfInterest |-> input.sessionsOfInterest, updatedAt |-> now, createdAt |-> now]

Updates(input, now) ==
  [firstName |-> input.firstName, lastName |-> input.lastName, email |-> input.email,
   phone |-> input.phone, organization |-> input.organization,
   jobTitle |-> input.jobTitle, country |-> input.country, city |-> input.city,
   dietaryRequirements |-> input.dietaryRequirements,
   specialNeeds |-> input.specialNeeds, ticketType |-> input.ticketType,
   sessionsOfInterest |-> input.sessionsOfInterest, updatedAt |-> now]

UpdateFindStep(s, input, up) ==
  LET q == Arrive("update", s, Some(input))
      look == getUserRegistration(registrations, s, up)
      looked == Call(q, "registrations.Query", up)
  IN  IF ~ShouldBindJSON(input)
        THEN Ends(q, Response("update", StatusBadRequest,
                              <<"Invalid request: ", BindErr>>, None))
      ELSE IF look.err # NoErr
        THEN Ends(looked,
                  Response("update", StatusNotFound,
                           <<"Registration not found. Please create one first.">>, None))
      ELSE GoesOn([looked EXCEPT
                     !.pc = "set", !.existingID = Head(look.reg).id, !.now = clock])

UpdateFind(r, s, input, up) ==
  /\ Free(r)
  /\ Take(r, UpdateFindStep(s, input, up))
  /\ UNCHANGED <<registrations, usedIds, users, clock, mw, client>>

\* Doc(existingReg.ID).Set(updates, MergeAll)
UpdateSet(r, up) ==
  /\ req[r].op = "update" /\ req[r].pc = "set"
  /\ LET q == Call(req[r], "registrations.Set", up) IN
       IF up
         THEN /\ registrations' = StoreSetMerge(registrations, q.existingID,
                                                Updates(Head(q.input), q.now))
              /\ Continue(r, [q EXCEPT !.pc = "refetch"])
         ELSE /\ UNCHANGED registrations
              /\ Respond(r, q,
                         Response("update", StatusInternalServerError,
                                  <<"Failed to update registration: ", StoreErr>>, None))
  /\ UNCHANGED <<usedIds, users, clock, mw, client>>

\* updatedReg, _ := getUserRegistration; 200 with whatever came back.
UpdateRefetch(r, up) ==
  /\ req[r].op = "update" /\ req[r].pc = "refetch"
  /\ Respond(r, Call(req[r], "registrations.Query", up),
             Response("update", StatusOK, <<"Registration updated successfully">>,
                      getUserRegistration(registrations, req[r].uid, up).reg))
  /\ UNCHANGED <<registrations, usedIds, users, clock, mw, client>>

\* ------------------------------------------------- DeleteRegistration
DeleteFindStep(s, up) ==
  LET look == getUserRegistration(registrations, s, up)
      looked == Call(Arrive("delete", s, None), "registrations.Query", up)
  IN  IF look.err # NoErr
        THEN Ends(looked,
                  Response("delete", StatusNotFound, <<"Registration not found">>, None))
        ELSE GoesOn([looked EXCEPT !.pc = "del", !.existingID = Head(look.reg).id])

DeleteFind(r, s, up) ==
  /\ Free(r)
  /\ Take(r, DeleteFindStep(s, up))
  /\ UNCHANGED <<registrations, usedIds, users, clock, mw, client>>

\* Doc(existingReg.ID).Delete
DeleteDoc(r, up) ==
  /\ req[r].op = "delete" /\ req[r].pc = "del"
  /\ LET q == Call(req[r], "registrations.Delete", up) IN
       IF up
         THEN /\ registrations' = StoreDelete(registrations, q.existingID)
              /\ Respond(r, q,
                         Response("delete", StatusOK,
                                  <<"Registration deleted successfully">>, None))
         ELSE /\ UNCHANGED registrations
              /\ Respond(r, q,
                         Response("delete", StatusInternalServerError,
                                  <<"Failed to delete registration: ", StoreErr>>, None))
  /\ UNCHANGED <<usedIds, users, clock, mw, client>>

\* ------------------------------------------------- GetAllRegistrations
\* Collection("registrations").Documents(ctx): the documents in the store's
\* order, that of their ids.
RECURSIVE InOrder(_)
InOrder(S) ==
  IF S = {} THEN <<>>
  ELSE LET d == CHOOSE x \in S : \A y \in S : x <= y IN <<d>> \o InOrder(S \ {d})

\* c.JSON(status, RegistrationResponse{Message: message, Registrations: regs})
ListResponse(status, message, regs) ==
  [op |-> "list", status |-> status, message |-> message, body |-> None,
   registrations |-> regs]

\* A listing that gives up at the first document that does not decode.
RECURSIVE ScanAborting(_, _, _, _)
ScanAborting(regs, ids, failAt, acc) ==
  IF failAt = 0 THEN [err |-> StoreErr, registrations |-> acc]
  ELSE IF ids = <<>> THEN [err |-> NoErr, registrations |-> acc]
  ELSE IF ~Decodable(regs[Head(ids)]) THEN [err |-> NoErr, registrations |-> acc]
  ELSE ScanAborting(regs, Tail(ids), failAt - 1,
                    Append(acc, WithID(DataTo(regs[Head(ids)]), Head(ids))))

\* The loop over iter.Next(): ids are the documents still to come, acc those
\* appended so far; the iterator fails at its call number failAt + 1, if the
\* loop gets that far.  A document that does not decode is skipped.
RECURSIVE Scan(_, _, _, _)
Scan(regs, ids, failAt, acc) ==
  IF failAt = 0 THEN [err |-> StoreErr, registrations |-> acc]
  ELSE IF ids = <<>> THEN [err |-> NoErr, registrations |-> acc]
  ELSE IF ~Decodable(regs[Head(ids)]) THEN Scan(regs, Tail(ids), failAt - 1, acc)
  ELSE Scan(regs, Tail(ids), failAt - 1,
            Append(acc, WithID(DataTo(regs[Head(ids)]), Head(ids))))

GetAllStep(failAt) ==
  LET scan == Scan(registrations, InOrder(DOMAIN registrations), failAt, <<>>) IN
  IF scan.err # NoErr
    THEN ListResponse(StatusInternalServerError,
                      <<"Failed to retrieve registrations: ", scan.err>>, <<>>)
    ELSE ListResponse(StatusOK, <<"Registrations retrieved successfully">>,
                      scan.registrations)

GetAllRegistrations(r, s, failAt) ==
  /\ Free(r)
  /\ Respond(r, Call(Arrive("list", s, None), "registrations.Documents",
                     GetAllStep(failAt).status = StatusOK),
             GetAllStep(failAt))
  /\ UNCHANGED <<registrations, usedIds, users, clock, mw, client>>

\* ------------------------------------------------------------------ time
Tick ==
  /\ clock < MaxTime
  /\ clock' = clock + 1
  /\ out' = None
  /\ UNCHANGED <<registrations, usedIds, users, req, mw, client>>

\* ------------------------------------------------- identity provider
\* The credentials the provider knows: auth.Client.VerifyIDToken accepts
\* "tok1" for subject u1 and "tok2" for u2, and rejects everything else.
TokenSubject(idToken) ==
  IF idToken = <<"tok1">> THEN "u1" ELSE IF idToken = <<"tok2">> THEN "u2" ELSE ""

\* auth.UserRecord of a subject.
UserRecord(uid) ==
  [uid |-> uid, email |-> <<uid, "@", "example.com">>, displayName |-> "Ada",
   photoUrl |-> "https://photo", emailVerified |-> TRUE]

\* A wrapper without the empty-token guard: the provider is asked always.
VerifyIDTokenUnguarded(idToken) ==
  [uid |-> TokenSubject(idToken), ok |-> TokenSubject(idToken) # "",
   calls |-> <<"Auth.VerifyIDToken">>]

\* Client.VerifyIDToken: the provider is asked only for a non-empty token.
VerifyIDToken(idToken) ==
  IF idToken = <<>> THEN [uid |-> "", ok |-> FALSE, calls |-> <<>>]
  ELSE [uid |-> TokenSubject(idToken), ok |-> TokenSubject(idToken) # "",
        calls |-> <<"Auth.VerifyIDToken">>]

\* Client.GetUser: the provider is asked only for a non-empty uid; found is
\* whether it returns the record.
GetUser(uid, found) ==
  IF uid = "" THEN [rec |-> None, calls |-> <<>>]
  ELSE [rec |-> IF found THEN Some(UserRecord(uid)) ELSE None, calls |-> <<"Auth.GetUser">>]

\* ------------------------------------------------------------ models.User
UserTimeFields == {"createdAt", "updatedAt", "lastLoginAt"}
UserFields ==
  {"uid", "email", "displayName", "photoUrl", "provider", "emailVerified",
   "createdAt", "updatedAt", "lastLoginAt"}

ZeroUser ==
  [uid |-> "", email |-> <<>>, displayName |-> "", photoUrl |-> "", provider |-> "",
   emailVerified |-> FALSE, createdAt |-> ZeroTime, updatedAt |-> ZeroTime,
   lastLoginAt |-> ZeroTime]

\* doc.DataTo(&user)
UserDecodable(doc) == \A f \in UserTimeFields \cap DOMAIN doc : doc[f] >= 0
UserDataTo(doc) == [f \in UserFields |-> IF f \in DOMAIN doc THEN doc[f] ELSE ZeroUser[f]]

\* A profile document per login rather than per subject.
UsersDocPerLogin(uid) == <<uid, clock>>

\* Collection("users").Doc(uid)
UsersDoc(uid) == uid

\* docRef.Get: the store's error when it fails, NotFound (and a snapshot
\* that does not exist) when there is no document.
UsersGet(id, up) ==
  IF ~up THEN [err |-> StoreErr, exists |-> FALSE, doc |-> None]
  ELSE IF id \notin DOMAIN users THEN [err |-> "NotFound", exists |-> FALSE, doc |-> None]
  ELSE [err |-> NoErr, exists |-> TRUE, doc |-> Some(users[id])]

\* ------------------------------------------------------- Authorization
\* The header is a sequence of atoms, " " the space; strings.Split(h, " ").
RECURSIVE SplitAcc(_, _, _)
SplitAcc(h, cur, acc) ==
  IF h = <<>> THEN Append(acc, cur)
  ELSE IF Head(h) = " " THEN SplitAcc(Tail(h), <<>>, Append(acc, cur))
  ELSE SplitAcc(Tail(h), Append(cur, Head(h)), acc)

Split(h) == SplitAcc(h, <<>>, <<>>)

Atoms == {"Bearer", " ", "tok1", "bad"}
RECURSIVE SeqsUpTo(_)
SeqsUpTo(n) ==
  IF n = 0 THEN {<<>>}
  ELSE SeqsUpTo(n - 1) \cup {Append(h, x) : h \in SeqsUpTo(n - 1), x \in Atoms}

Headers ==
  SeqsUpTo(MaxHeader)
    \cup {<<"Bearer", " ", "tok2">>, <<"bearer", " ", "tok1">>, <<"Basic", " ", "tok1">>}

\* ------------------------------------------------------- AuthMiddleware
\* What the middleware left behind: the response it wrote (status 0: none),
\* whether it aborted the chain, the context it set, the calls it made.
Outcome(kind, header, found, up, status, message, aborted, ctx, calls) ==
  [kind |-> kind, header |-> header, found |-> found, up |-> up, status |-> status,
   message |-> message, aborted |-> aborted, user |-> ctx,
   uid |-> IF ctx = None THEN None ELSE Some(Head(ctx).uid), calls |-> calls]

Reject(kind, header, found, up, message, calls) ==
  Outcome(kind, header, found, up, StatusUnauthorized, message, TRUE, None, calls)

\* The user object built from the provider's record.
AuthUser(rec) ==
  [ZeroUser EXCEPT !.uid = rec.uid, !.email = rec.email, !.displayName = rec.displayName,
                   !.photoUrl = rec.photoUrl, !.emailVerified = rec.emailVerified]

\* An enrichment that takes the decoded profile for the user, decoded or not.
EnrichReplacing(user, got) ==
  IF got.err = NoErr /\ got.exists
    THEN IF UserDecodable(Head(got.doc)) THEN UserDataTo(Head(got.doc)) ELSE ZeroUser
    ELSE user

\* An enrichment that takes every field of a readable profile.
EnrichAll(user, got) ==
  IF got.err = NoErr /\ got.exists /\ UserDecodable(Head(got.doc))
    THEN UserDataTo(Head(got.doc))
    ELSE user

\* Merge Firestore data with Auth data, when the profile is there and decodes.
Enrich(user, got) ==
  IF got.err = NoErr /\ got.exists /\ UserDecodable(Head(got.doc))
    THEN LET firestoreUser == UserDataTo(Head(got.doc)) IN
         [user EXCEPT !.createdAt = firestoreUser.createdAt,
                      !.updatedAt = firestoreUser.updatedAt,
                      !.lastLoginAt = firestoreUser.lastLoginAt,
                      !.provider = firestoreUser.provider]
    ELSE user

RequireAuthStep(header, found, up) ==
  LET tokenParts == Split(header)
      token == VerifyIDToken(tokenParts[2])
      rec == GetUser(token.uid, found)
      got == UsersGet(UsersDoc(token.uid), up)
  IN  IF header = <<>>
        THEN Reject("require", header, found, up, "Authorization header is required", <<>>)
      ELSE IF Len(tokenParts) # 2 \/ tokenParts[1] # <<"Bearer">>
        THEN Reject("require", header, found, up,
                    "Invalid authorization header format. Use: Bearer <token>", <<>>)
      ELSE IF ~token.ok
        THEN Reject("require", header, found, up, "Invalid or expired token", token.calls)
      ELSE IF rec.rec = None
        THEN Reject("require", header, found, up, "Failed to retrieve user information",
                    token.calls \o rec.calls)
      ELSE Outcome("require", header, found, up, 0, "", FALSE,
                   Some(Enrich(AuthUser(Head(rec.rec)), got)),
                   token.calls \o rec.calls \o <<"users.Get">>)

\* A middleware that records in the subject's profile how it came in.
RequireAuthTouching(header, found, up) ==
  /\ mw' = Some(RequireAuthStep(header, found, up))
  /\ users' = IF Head(mw').user # None /\ Head(Head(mw').uid) \in DOMAIN users
                THEN [users EXCEPT ![Head(Head(mw').uid)].provider = "token"]
                ELSE users
  /\ UNCHANGED <<registrations, usedIds, clock, req, out, lastDone, client>>

RequireAuth(header, found, up) ==
  /\ mw' = Some(RequireAuthStep(header, found, up))
  /\ UNCHANGED <<registrations, usedIds, users, clock, req, out, lastDone, client>>

\* An optional middleware that turns failures down as RequireAuth does.
AnonymousRejected(header, found, up, calls) ==
  Reject("optional", header, found, up, "Invalid or expired token", calls)

\* Every failure goes on to the next handler with no user in the context.
Anonymous(header, found, up, calls) ==
  Outcome("optional", header, found, up, 0, "", FALSE, None, calls)

OptionalAuthStep(header, found, up) ==
  LET tokenParts == Split(header)
      token == VerifyIDToken(tokenParts[2])
      rec == GetUser(token.uid, found)
  IN  IF header = <<>> THEN Anonymous(header, found, up, <<>>)
      ELSE IF Len(tokenParts) # 2 \/ tokenParts[1] # <<"Bearer">>
        THEN Anonymous(header, found, up, <<>>)
      ELSE IF ~token.ok THEN Anonymous(header, found, up, token.calls)
      ELSE IF rec.rec = None THEN Anonymous(header, found, up, token.calls \o rec.calls)
      ELSE Outcome("optional", header, found, up, 0, "", FALSE,
                   Some(AuthUser(Head(rec.rec))), token.calls \o rec.calls)

OptionalAuth(header, found, up) ==
  /\ mw' = Some(OptionalAuthStep(header, found, up))
  /\ UNCHANGED <<registrations, usedIds, users, clock, req, out, lastDone, client>>

\* ------------------------------------------------- AuthHandler.GoogleLogin
\* c.JSON(status, AuthResponse{Message: message, User: user, Token: token}),
\* as the client of login q gets it.
AuthResponse(q, status, message, user) ==
  Some([uid |-> IF user = None THEN "" ELSE Head(user).uid, prev |-> None,
        input |-> q.input, calls |-> q.calls,
        op |-> "login", status |-> status, message |-> <<message>>, body |-> user])

\* Bind {idToken} (required), verify it, fetch the provider's record, build
\* the user with LastLoginAt = now.
GoogleLoginStep(idToken, found) ==
  LET q == Arrive("login", "", Some(idToken))
      token == VerifyIDToken(idToken)
      rec == GetUser(token.uid, found)
      userRecord == Head(rec.rec)
  IN  IF idToken = <<>>
        THEN [out |-> AuthResponse(q, StatusBadRequest,
                                   "Invalid request: idToken is required", None),
              next |-> Idle]
      ELSE IF ~token.ok
        THEN [out |-> AuthResponse(q, StatusUnauthorized, "Invalid or expired token", None),
              next |-> Idle]
      ELSE IF rec.rec = None
        THEN [out |-> AuthResponse(q, StatusInternalServerError,
                                   "Failed to retrieve user information", None),
              next |-> Idle]
      ELSE [out |-> None,
            next |-> [q EXCEPT !.pc = "get", !.uid = userRecord.uid,
                        !.user = Some([ZeroUser EXCEPT
                                         !.uid = userRecord.uid,
                                         !.email = userRecord.email,
                                         !.displayName = userRecord.displayName,
                                         !.photoUrl = userRecord.photoUrl,
                                         !.provider = "google.com",
                                         !.lastLoginAt = clock])]]

GoogleLogin(r, idToken, found) ==
  /\ Free(r)
  /\ req' = [req EXCEPT ![r] = GoogleLoginStep(idToken, found).next]
  /\ out' = GoogleLoginStep(idToken, found).out
  /\ UNCHANGED <<registrations, usedIds, users, clock, mw, client>>

\* saveUserToFirestore, up to the Set: a profile that cannot be read or is
\* not there makes a new user (CreatedAt = now); one that is there keeps its
\* CreatedAt when it decodes; UpdatedAt = now.
Stamp(user, got, now) ==
  LET created ==
        IF got.err # NoErr \/ ~got.exists THEN now
        ELSE IF UserDecodable(Head(got.doc)) THEN UserDataTo(Head(got.doc)).createdAt
        ELSE user.createdAt
  IN  [user EXCEPT !.createdAt = created, !.updatedAt = now]

SaveUserGet(r, up) ==
  /\ req[r].op = "login" /\ req[r].pc = "get"
  /\ req' = [req EXCEPT ![r] =
               [Call(req[r], "users.Get", up) EXCEPT
                  !.pc = "set",
                  !.user = Some(Stamp(Head(req[r].user),
                                      UsersGet(UsersDoc(req[r].uid), up), clock))]]
  /\ out' = None
  /\ UNCHANGED <<registrations, usedIds, users, clock, mw, client>>

\* A login that answers 500 when the profile cannot be saved.
SaveUserSetStrict(r, up) ==
  /\ req[r].op = "login" /\ req[r].pc = "set"
  /\ users' = IF up THEN StoreAdd(users, UsersDoc(req[r].uid), Head(req[r].user)) ELSE users
  /\ req' = [req EXCEPT ![r] = Idle]
  /\ out' = IF up
              THEN AuthResponse(Call(req[r], "users.Set", up), StatusOK,
                                "Logged in successfully", req[r].user)
              ELSE AuthResponse(Call(req[r], "users.Set", up), StatusInternalServerError,
                                "Failed to save user", None)
  /\ UNCHANGED <<registrations, usedIds, clock, mw, client>>

\* docRef.Set(ctx, user): the whole document; the login answers 200 whether
\* or not the write went through.
SaveUserSet(r, up) ==
  /\ req[r].op = "login" /\ req[r].pc = "set"
  /\ users' = IF up THEN StoreAdd(users, UsersDoc(req[r].uid), Head(req[r].user)) ELSE users
  /\ req' = [req EXCEPT ![r] = Idle]
  /\ out' = AuthResponse(Call(req[r], "users.Set", up), StatusOK,
                         IF up THEN "Logged in successfully"
                               ELSE "Logged in successfully (profile save pending)",
                         req[r].user)
  /\ UNCHANGED <<registrations, usedIds, clock, mw, client>>

\* ------------------------------------------- firebase.Client and Close
\* The goroutines that call Close, and how many calls each makes.
Closers == {"c1", "c2", "c3"}
MaxCalls == 2

CloseErr == "firestore: close failed"

\* A Client value: isNil is a nil *Client; Firestore is "none" (the field is
\* nil), "open", "closing" (Firestore.Close is running) or "closed"; closed
\* is what the finished Firestore.Close returned; closeOnce is the state of
\* the sync.Once ("new", "running" while f runs, "done"); closeErr is the
\* field; closes counts the calls of Firestore.Close. For each goroutine, pc
\* is its position in Close, ret the value its last call returned and made
\* the number of calls it has finished.
NewClient(isNil, firestore) ==
  [isNil     |-> isNil,
   Firestore |-> firestore,
   closed    |-> None,
   closeOnce |-> "new",
   closeErr  |-> NoErr,
   closes    |-> 0,
   pc        |-> [p \in Closers |-> "idle"],
   ret       |-> [p \in Closers |-> None],
   made      |-> [p \in Closers |-> 0]]

\* Initialize returns a Client with both clients set.
Initialize == NewClient(FALSE, "open")

CloseFrame == UNCHANGED <<registrations, usedIds, users, clock, req, out, lastDone, mw>>

\* Close is called: a nil client returns nil at once, any other reaches
\* closeOnce.Do.
CloseCall(p) ==
  /\ client.pc[p] = "idle"
  /\ client.made[p] < MaxCalls
  /\ IF client.isNil
       THEN client' = [client EXCEPT !.ret[p] = Some(NoErr), !.made[p] = @ + 1]
       ELSE client' = [client EXCEPT !.pc[p] = "Do"]
  /\ CloseFrame

\* A Do that does not wait for the running f.
CloseOnceDoUnlocked(p) ==
  /\ client.pc[p] = "Do"
  /\ IF client.closeOnce = "new"
       THEN client' = [client EXCEPT !.closeOnce = "running", !.pc[p] = "f"]
       ELSE client' = [client EXCEPT !.pc[p] = "return"]
  /\ CloseFrame

\* closeOnce.Do(f): the first caller runs f; a caller that arrives while f
\* runs waits until it has returned; a caller that arrives after returns
\* without running f.
CloseOnceDo(p) ==
  /\ client.pc[p] = "Do"
  /\ client.closeOnce # "running"
  /\ IF client.closeOnce = "new"
       THEN client' = [client EXCEPT !.closeOnce = "running", !.pc[p] = "f"]
       ELSE client' = [client EXCEPT !.pc[p] = "return"]
  /\ CloseFrame

\* f: with no Firestore client f returns and the Once is done; otherwise
\* Firestore.Close is called.
CloseFirestore(p) ==
  /\ client.pc[p] = "f"
  /\ IF client.Firestore = "none"
       THEN client' = [client EXCEPT !.closeOnce = "done", !.pc[p] = "return"]
       ELSE client' = [client EXCEPT !.Firestore = "closing",
                                     !.closes = @ + 1,
                                     !.pc[p] = "closing"]
  /\ CloseFrame

\* Firestore.Close returns err: f stores it in closeErr and returns, and
\* the Once is done.
CloseDone(p, err) ==
  /\ client.pc[p] = "closing"
  /\ client' = [client EXCEPT !.Firestore = "closed",
                              !.closed = Some(err),
                              !.closeErr = err,
                              !.closeOnce = "done",
                              !.pc[p] = "return"]
  /\ CloseFrame

\* return c.closeErr
CloseReturn(p) ==
  /\ client.pc[p] = "return"
  /\ client' = [client EXCEPT !.ret[p] = Some(client.closeErr),
                              !.made[p] = @ + 1,
                              !.pc[p] = "idle"]
  /\ CloseFrame

\* ------------------------------------------- the registration service
NoDocs == [d \in {} |-> None]

Init ==
  /\ registrations = NoDocs
  /\ usedIds = {}
  /\ users = NoDocs
  /\ clock = 1
  /\ req = [r \in Reqs |-> Idle]
  /\ out = None
  /\ lastDone = [s \in Subjects |-> None]
  /\ mw = None
  /\ client = Initialize

\* Close called by several goroutines, each call at any time, on a nil
\* client, a client without a Firestore client, or an initialized one.
CloseInit ==
  /\ registrations = NoDocs
  /\ usedIds = {}
  /\ users = NoDocs
  /\ clock = 1
  /\ req = [r \in Reqs |-> Idle]
  /\ out = None
  /\ lastDone = [s \in Subjects |-> None]
  /\ mw = None
  /\ client \in {NewClient(TRUE, "none"), NewClient(FALSE, "none"), Initialize}

CloseNext ==
  \/ \E p \in Closers : CloseCall(p)
  \/ \E p \in Closers : CloseOnceDo(p)
  \/ \E p \in Closers : CloseFirestore(p)
  \/ \E p \in Closers, err \in {NoErr, CloseErr} : CloseDone(p, err)
  \/ \E p \in Closers : CloseReturn(p)

SpecClose == CloseInit /\ [][CloseNext]_vars

\* The history of a step: with keep, the handler and status of the response
\* the step sent become the subject's last outcome.
History(keep) ==
  lastDone' = IF keep /\ out' # None
                THEN [lastDone EXCEPT ![Head(out').uid] = Some(<<Head(out').op, Head(out').status>>)]
                ELSE lastDone

\* The registration routes, called by the subjects of S in the slots of R,
\* every store call succeeding or failing as Ups allows.
RegNext(S, Ups, R, keep) ==
  \/ \E r \in R, s \in S, input \in Inputs, up \in Ups :
       CreateCheck(r, s, input, up) /\ History(keep)
  \/ \E r \in R, up \in Ups : CreateAdd(r, up) /\ History(keep)
  \/ \E r \in R, s \in S, up \in Ups : GetMyRegistration(r, s, up) /\ History(keep)
  \/ \E r \in R, s \in S, input \in Inputs, up \in Ups :
       UpdateFind(r, s, input, up) /\ History(keep)
  \/ \E r \in R, up \in Ups : UpdateSet(r, up) /\ History(keep)
  \/ \E r \in R, up \in Ups : UpdateRefetch(r, up) /\ History(keep)
  \/ \E r \in R, s \in S, up \in Ups : DeleteFind(r, s, up) /\ History(keep)
  \/ \E r \in R, up \in Ups : DeleteDoc(r, up) /\ History(keep)
  \/ Tick /\ History(FALSE)

\* One subject's requests, overlapping, store calls failing at will.
Next == RegNext({"u1"}, BOOLEAN, Reqs, FALSE)
Spec == Init /\ [][Next]_vars

\* One subject's requests, overlapping, no store call failing.
OkNext == RegNext({"u1"}, {TRUE}, Reqs, FALSE)
SpecOk == Init /\ [][OkNext]_vars

\* One subject's requests, one at a time, store calls failing at will.
SeqNext == RegNext({"u1"}, BOOLEAN, {"a"}, TRUE)
SpecSeq == Init /\ [][SeqNext]_vars

\* One subject's requests, one at a time, no store call failing.
SeqOkNext == RegNext({"u1"}, {TRUE}, {"a"}, TRUE)
SpecSeqOk == Init /\ [][SeqOkNext]_vars

\* Two subjects, each with its requests one at a time in a slot of its own,
\* the requests of the one interleaving with those of the other; no store
\* call failing.
PairNext ==
  \/ RegNext({"u1"}, {TRUE}, {"a"}, FALSE)
  \/ RegNext({"u2"}, {TRUE}, {"b"}, FALSE)

SpecPair == Init /\ [][PairNext]_vars

\* ------------------------------------------------------- the listing
\* The collection as the listing may find it: documents of either subject,
\* and documents whose createdAt is no timestamp, under ids the store gave.
ListIds == 1..(MaxDocs + 1)

ListDocs ==
  { NewRegistration("u1", MkInput("Ada", GoodEmail, ""), 1),
    NewRegistration("u2", MkInput("Ada", GoodEmail, "London"), 1),
    [NewRegistration("u1", MkInput("Ada", GoodEmail, ""), 1) EXCEPT !.createdAt = BadTime] }

ListStores == UNION {[D -> ListDocs] : D \in SUBSET ListIds}

ListInit ==
  /\ registrations \in ListStores
  /\ usedIds = DOMAIN registrations
  /\ users = NoDocs
  /\ clock = 1
  /\ req = [r \in Reqs |-> Idle]
  /\ out = None
  /\ lastDone = [s \in Subjects |-> None]
  /\ mw = None
  /\ client = Initialize

\* The listing and the registration routes, one request at a time; the
\* iterator fails at any of its calls or at none.
ListNext ==
  \/ \E s \in {"u1"}, failAt \in 0..(MaxDocs + 2) :
       GetAllRegistrations("a", s, failAt) /\ History(FALSE)
  \/ RegNext({"u1"}, {TRUE}, {"a"}, FALSE)

SpecList == ListInit /\ [][ListNext]_vars

\* ---------------------------------------------------------- the login
LoginTokens == {<<>>, <<"tok1">>, <<"tok2">>, <<"bad">>}

LoginNext(R, Ups) ==
  \/ \E r \in R, idToken \in LoginTokens, found \in BOOLEAN :
       GoogleLogin(r, idToken, found) /\ History(FALSE)
  \/ \E r \in R, up \in Ups : SaveUserGet(r, up) /\ History(FALSE)
  \/ \E r \in R, up \in Ups : SaveUserSet(r, up) /\ History(FALSE)
  \/ Tick /\ History(FALSE)

\* Logins overlapping, store calls failing at will.
SpecLogin == Init /\ [][LoginNext(Reqs, BOOLEAN)]_vars

\* Logins one at a time, store calls failing at will.
SpecLoginSeq == Init /\ [][LoginNext({"a"}, BOOLEAN)]_vars

\* Logins overlapping, no store call failing.
SpecLoginOk == Init /\ [][LoginNext(Reqs, {TRUE})]_vars

\* ------------------------------------------------- the auth middleware
\* A profile as a login wrote it, one whose createdAt is no timestamp, and
\* one written before the subject changed e-mail, name and photo.
Profile(uid) ==
  [uid |-> uid, email |-> <<uid, "@", "example.com">>, displayName |-> "Ada",
   photoUrl |-> "https://photo", provider |-> "google.com", emailVerified |-> FALSE,
   createdAt |-> 1, updatedAt |-> 2, lastLoginAt |-> 2]

ProfileStores ==
  { NoDocs,
    [d \in {"u1"} |-> Profile("u1")],
    [d \in {"u1"} |-> [Profile("u1") EXCEPT !.createdAt = BadTime]],
    [d \in {"u1"} |-> [Profile("u1") EXCEPT !.email = <<"old", "@", "example.com">>,
                                            !.displayName = "A. L.",
                                            !.photoUrl = "https://old",
                                            !.provider = "password"]] }

AuthInit ==
  /\ registrations = NoDocs
  /\ usedIds = {}
  /\ users \in ProfileStores
  /\ clock = MaxTime
  /\ req = [r \in Reqs |-> Idle]
  /\ out = None
  /\ lastDone = [s \in Subjects |-> None]
  /\ mw = None
  /\ client = Initialize

AuthNext ==
  \/ \E header \in Headers, found \in BOOLEAN, up \in BOOLEAN :
       RequireAuth(header, found, up)
  \/ \E header \in Headers, found \in BOOLEAN, up \in BOOLEAN :
       OptionalAuth(header, found, up)

SpecAuth == AuthInit /\ [][AuthNext]_vars

\* ------------------------------------------------------------ properties
Owned(s) == Matching(registrations, s)

\* The stored document d as a read of it returns it.
Stored(d) == WithID(DataTo(registrations[d]), d)

SentBy(op) == out # None /\ Head(out).op = op

\* C1: for a fixed subject, a create executed right after a create that
\* answered 201 answers 409 carrying the record the first one stored, and
\* the store holds exactly one registration of the subject.  (Stated for
\* the second creates that are neither refused for their body, 400, nor
\* answered 500 because the Add failed.)
C1_SecondCreateConflicts ==
  (/\ SentBy("create")
   /\ Head(out).prev = Some(<<"create", StatusCreated>>)
   /\ Head(out).status \notin {StatusBadRequest, StatusInternalServerError})
  => /\ Head(out).status = StatusConflict
     /\ Cardinality(Owned(Head(out).uid)) = 1
     /\ \E d \in Owned(Head(out).uid) : Head(out).body = Some(Stored(d))

\* C2: requests of a subject handled one at a time and no store call
\* failing, the store holds at most one registration owned by the subject
\* after any sequence of create, update and delete.
C2_AtMostOnePerSubject == \A s \in Subjects : Cardinality(Owned(s)) <= 1

\* A create was refused after a delete and a second create had gone through:
\* the subject's registration is the one document.
C2_Witness ==
  /\ SentBy("create") /\ Head(out).status = StatusConflict
  /\ Cardinality(usedIds) = 2
  /\ Cardinality(Owned("u1")) = 1

\* C3: the Add of a create that passed the existence check is not held back
\* by a registration another create stored meanwhile: it answers 201 and the
\* subject owns one document more, two when the other create wrote first.
C3_RacingCreatesBothStore ==
  [][\A r \in Reqs :
       (req[r].op = "create" /\ req[r].pc = "add" /\ req'[r].pc = "idle")
       => /\ SentBy("create")'
          /\ Head(out').status = StatusCreated
          /\ Cardinality(Matching(registrations', req[r].uid))
               = Cardinality(Owned(req[r].uid)) + 1]_vars

\* Both creates of one subject answered 201 and the store holds two
\* registrations owned by it (no store call fails in this specification).
C3_Witness ==
  /\ SentBy("create") /\ Head(out).status = StatusCreated
  /\ Cardinality(Owned("u1")) = 2

\* A header of exactly the form "Bearer <token>", the token without space
\* and not empty; its credential; the subject the provider verifies it for.
BearerForm(h) ==
  /\ Len(h) >= 3
  /\ h[1] = "Bearer"
  /\ h[2] = " "
  /\ \A i \in 3..Len(h) : h[i] # " "

Credential(h) == SubSeq(h, 3, Len(h))
Verified(h) == BearerForm(h) /\ TokenSubject(Credential(h)) # ""

Ran(kind) == mw # None /\ Head(mw).kind = kind

\* The profile of subject s is in the store and decodes.
Readable(s) == UsersDoc(s) \in DOMAIN users /\ UserDecodable(users[UsersDoc(s)])

\* C4: on a protected route, a request whose Authorization header is absent,
\* is not of the form "Bearer <token>" or carries an empty token is answered
\* 401, the chain is aborted (the handler does not run), and neither the
\* provider nor the store is called.
C4_MalformedHeaderRejected ==
  (Ran("require") /\ ~BearerForm(Head(mw).header))
  => /\ Head(mw).status = StatusUnauthorized
     /\ Head(mw).aborted
     /\ Head(mw).user = None
     /\ Head(mw).calls = <<>>

\* RequireAuth has turned an empty token ("Bearer ") down.
C4_Witness ==
  /\ Ran("require")
  /\ Head(mw).header = <<"Bearer", " ">>
  /\ Head(mw).status = StatusUnauthorized

\* C5: a credential the provider verifies, its provider record fetched:
\* RequireAuth lets the request through with the token's subject as the
\* identity's subject, whether the profile is there, is not there, or cannot
\* be read or decoded; in the last two the enrichment fields are zero.
C5_ResolutionSurvivesEnrichment ==
  (Ran("require") /\ Verified(Head(mw).header) /\ Head(mw).found)
  => /\ ~Head(mw).aborted
     /\ Head(mw).status = 0
     /\ Head(mw).user # None
     /\ Head(Head(mw).user).uid = TokenSubject(Credential(Head(mw).header))
     /\ Head(mw).uid = Some(TokenSubject(Credential(Head(mw).header)))
     /\ (~Head(mw).up \/ ~Readable(TokenSubject(Credential(Head(mw).header))))
        => /\ Head(Head(mw).user).createdAt = ZeroTime
           /\ Head(Head(mw).user).updatedAt = ZeroTime
           /\ Head(Head(mw).user).lastLoginAt = ZeroTime
           /\ Head(Head(mw).user).provider = ""

\* RequireAuth has let u1 through over a profile that does not decode.
C5_Witness ==
  /\ Ran("require")
  /\ Head(mw).header = <<"Bearer", " ", "tok1">>
  /\ Head(mw).found /\ Head(mw).up
  /\ "u1" \in DOMAIN users /\ ~UserDecodable(users["u1"])
  /\ ~Head(mw).aborted

\* C6: on a protected route, a verified credential whose provider record
\* cannot be fetched is answered with another status than a credential
\* that fails verification.
C6_LookupFailureDistinguishable ==
  [][(/\ Ran("require") /\ Ran("require")'
      /\ BearerForm(Head(mw).header) /\ ~Verified(Head(mw).header)
      /\ Verified(Head(mw').header) /\ ~Head(mw').found)
     => Head(mw').status # Head(mw).status]_vars

\* C7: OptionalAuth never rejects: the request goes on to the next handler,
\* with an identity exactly when the credential was verified and the
\* provider's record fetched.
C7_OptionalNeverRejects ==
  Ran("optional")
  => /\ ~Head(mw).aborted
     /\ Head(mw).status = 0
     /\ (Head(mw).user # None) <=> (Verified(Head(mw).header) /\ Head(mw).found)
     /\ (Head(mw).uid # None) <=> (Verified(Head(mw).header) /\ Head(mw).found)

\* OptionalAuth has let a verified credential through anonymously, the
\* provider's record not fetched.
C7_Witness ==
  /\ Ran("optional")
  /\ Head(mw).header = <<"Bearer", " ", "tok1">>
  /\ ~Head(mw).found
  /\ ~Head(mw).aborted /\ Head(mw).user = None

\* C8: where RequireAuth succeeds, OptionalAuth on the same credential over
\* the same store and provider attaches the same identity context.
C8_OptionalSameIdentity ==
  [][(/\ Ran("require") /\ Ran("optional")'
      /\ Head(mw).user # None
      /\ Head(mw').header = Head(mw).header
      /\ Head(mw').found = Head(mw).found
      /\ Head(mw').up = Head(mw).up)
     => Head(mw').user = Head(mw).user]_vars

\* The profile documents of subject s.
Profiles(s) == {d \in DOMAIN users : users[d].uid = s}

\* The login that writes in this step, if one does.
Saving(r) == req[r].op = "login" /\ req[r].pc = "set" /\ req'[r].pc = "idle"

\* C9: logins of a subject not overlapping, the first creates the profile
\* with createdAt = its time, every later one leaves createdAt as it was and
\* sets updatedAt to its own time (a time between its start and its write).
C9_CreatedAtPreserved ==
  [][\A r \in Reqs :
       (Saving(r) /\ users' # users)
       => LET id == UsersDoc(req[r].uid) IN
          /\ users'[id].updatedAt \in users'[id].lastLoginAt .. clock
          /\ IF id \in DOMAIN users
               THEN users'[id].createdAt = users[id].createdAt
               ELSE users'[id].createdAt = users'[id].updatedAt]_vars

\* C10: under any interleaving of logins the users collection holds at most
\* one profile per subject, and no step removes a profile.
C10_OneProfileNeverDeleted ==
  /\ [](\A s \in Subjects : Cardinality(Profiles(s)) <= 1)
  /\ [][DOMAIN users \subseteq DOMAIN users']_vars

\* A login of u1 has written the profile while another login of u1, begun
\* before that write, is still to write.
C10_Witness ==
  /\ out # None /\ Head(out).op = "login" /\ Head(out).status = StatusOK
  /\ Cardinality(Profiles("u1")) = 1
  /\ \E r \in Reqs : req[r].op = "login" /\ req[r].pc = "set" /\ req[r].uid = "u1"

\* The fields a create or update request carries, and the ones it must fill.
Editable ==
  {"firstName", "lastName", "email", "phone", "organization", "jobTitle", "country",
   "city", "dietaryRequirements", "specialNeeds", "ticketType", "sessionsOfInterest"}

WellFormed(input) ==
  /\ \A f \in {"firstName", "lastName", "country", "ticketType"} : input[f] # ""
  /\ Len(input.email) = 3 /\ input.email[1] # "" /\ input.email[2] = "@"
  /\ input.email[3] # ""

\* The request in slot r ends in this step.
Answered(r, op, pc) == req[r].op = op /\ req[r].pc = pc /\ req'[r].pc = "idle"

\* A store call made for the answered request failed.
CallFailed == \E i \in 1..Len(Head(out).calls) : ~Head(out).calls[i][2]

\* C11: a create or update whose body misses a required field or has a
\* malformed e-mail is answered 400 with no store call made for it, never
\* gets to a store call, and a 400 leaves the registrations as they were.
C11_InvalidInputRefused ==
  /\ []((/\ out # None /\ Head(out).op \in {"create", "update"}
         /\ ~WellFormed(Head(Head(out).input)))
        => /\ Head(out).status = StatusBadRequest
           /\ Head(out).calls = <<>>)
  /\ [](\A r \in Reqs : req[r].op \in {"create", "update"}
                        => WellFormed(Head(req[r].input)))
  /\ [][(/\ out' # None /\ Head(out').op \in {"create", "update"}
         /\ Head(out').status = StatusBadRequest)
        => registrations' = registrations]_vars

\* An update with a malformed e-mail was refused while the subject has a
\* registration.
C11_Witness ==
  /\ SentBy("update") /\ Head(out).status = StatusBadRequest
  /\ Head(Head(out).input).firstName # ""
  /\ Owned("u1") # {}

\* C12: a create that answers 201 has stored exactly one new document: its
\* owner is the subject, paymentStatus is pending, registrationDate,
\* createdAt and updatedAt are the one creation time, and the response
\* carries that document under the id the store gave it.
C12_CreatedDocument ==
  [][\A r \in Reqs :
       (Answered(r, "create", "add") /\ Head(out').status = StatusCreated)
       => \E id \in DOMAIN registrations' \ DOMAIN registrations :
            /\ DOMAIN registrations' = DOMAIN registrations \cup {id}
            /\ \A d \in DOMAIN registrations : registrations'[d] = registrations[d]
            /\ id \in DocIds
            /\ registrations'[id].userId = req[r].uid
            /\ registrations'[id].paymentStatus = "pending"
            /\ registrations'[id].registrationDate = req[r].now
            /\ registrations'[id].createdAt = req[r].now
            /\ registrations'[id].updatedAt = req[r].now
            /\ req[r].now \in 1..clock
            /\ \A f \in Editable : registrations'[id][f] = Head(req[r].input)[f]
            /\ Head(out').body # None
            /\ Head(Head(out').body).id = id
            /\ Head(Head(out').body) = WithID(DataTo(registrations'[id]), id)]_vars

\* A create answered 201 for a registration built before the clock moved on.
C12_Witness ==
  /\ SentBy("create") /\ Head(out).status = StatusCreated
  /\ Head(Head(out).body).id \in DOMAIN registrations
  /\ Head(Head(out).body).createdAt < clock

C14_DeleteFreesSubject ==
  (out # None /\ Head(out).prev = Some(<<"delete", StatusOK>>))
  => /\ Head(out).op = "get" => Head(out).status = StatusNotFound
     /\ (/\ Head(out).op = "create"
         /\ Head(out).status \notin {StatusBadRequest, StatusInternalServerError})
        => Head(out).status = StatusCreated

C16_NotFoundMeansAbsent ==
  (out # None /\ Head(out).op \in {"get", "update", "delete"})
  => /\ Head(out).status = StatusNotFound => Owned(Head(out).uid) = {}
     /\ (Head(out).calls # <<>> /\ ~Head(out).calls[1][2])
        => Head(out).status >= StatusInternalServerError

\* C17: a login answers 400 exactly for a missing credential and 401
\* exactly for one the provider does not verify; a login that got to the
\* profile save answers 200 with the identity of the token's subject,
\* whether the save went through or not; 500 is for the provider's record
\* only.
C17_LoginSurvivesSave ==
  /\ []((out # None /\ Head(out).op = "login")
        => LET idToken == Head(Head(out).input) IN
           /\ Head(out).status = StatusBadRequest <=> idToken = <<>>
           /\ Head(out).status = StatusUnauthorized
                <=> (idToken # <<>> /\ TokenSubject(idToken) = "")
           /\ Head(out).status
                \in {StatusOK, StatusBadRequest, StatusUnauthorized, StatusInternalServerError}
           /\ Head(out).status = StatusInternalServerError => Head(out).calls = <<>>
           /\ Head(out).calls # <<>>
                => /\ Head(out).status = StatusOK
                   /\ Head(out).body # None
                   /\ Head(Head(out).body).uid = TokenSubject(idToken)
                   /\ TokenSubject(idToken) # "")
  /\ [](\A r \in Reqs : req[r].op = "login"
          => TokenSubject(Head(req[r].input)) = req[r].uid /\ req[r].uid # "")
  /\ [][\A r \in Reqs : Answered(r, "login", "set")
          => /\ Head(out').status = StatusOK
             /\ Head(out').body = req[r].user]_vars

\* A login answered 200 although its profile write failed.
C17_Witness ==
  /\ out # None /\ Head(out).op = "login" /\ Head(out).status = StatusOK
  /\ Len(Head(out).calls) = 2 /\ ~Head(out).calls[2][2]

\* C18: a create for which a store call failed, the existence query or the
\* Add, answers an error and stores nothing.
C18_CreateFailsOnStoreError ==
  [][(SentBy("create")' /\ CallFailed')
     => /\ Head(out').status >= StatusInternalServerError
        /\ registrations' = registrations]_vars

\* C19: no step of an update changes the set of document ids, and every
\* stored document carries an owner and a paymentStatus.
C19_UpdateCreatesNothing ==
  /\ [][\A r \in Reqs : (req[r].op = "update" /\ req'[r] # req[r])
          => DOMAIN registrations' = DOMAIN registrations]_vars
  /\ [](\A d \in DOMAIN registrations :
          {"userId", "paymentStatus"} \subseteq DOMAIN registrations[d])

\* C20: an update that answers 200 carries the registration re-read after
\* the merge-write: present, under the id that was updated, with the
\* submitted values.
C20_UpdateReturnsReread ==
  [][\A r \in Reqs :
       (Answered(r, "update", "refetch") /\ Head(out').status = StatusOK)
       => /\ Head(out').body # None
          /\ Head(Head(out').body).id = req[r].existingID
          /\ \A f \in Editable : Head(Head(out').body)[f] = Head(req[r].input)[f]]_vars

\* C21: the write of a login stores the user as the login stamped it at its
\* read, whatever was written meanwhile (the last writer wins, also over
\* createdAt); the profile stays the one document of its subject.
C21_LastLoginWriteWins ==
  /\ [][\A r \in Reqs :
          Saving(r) => users'[UsersDoc(req[r].uid)] = Head(req[r].user)]_vars
  /\ [](\A d \in DOMAIN users : users[d].uid = d)
  /\ [](\A s \in Subjects : Cardinality(Profiles(s)) <= 1)

\* No store call failing: the first of two overlapping logins of u1 has
\* written the profile, and the second, which read before that write and so
\* found no profile, is about to write another createdAt over it.
C21_Witness ==
  /\ out # None /\ Head(out).op = "login" /\ Head(out).status = StatusOK
  /\ "u1" \in DOMAIN users
  /\ users["u1"] = Head(Head(out).body)
  /\ \E r \in Reqs :
       /\ req[r].op = "login" /\ req[r].pc = "set" /\ req[r].uid = "u1"
       /\ Head(req[r].user).createdAt # users["u1"].createdAt

\* The calls that read.
ReadCalls == {"Auth.VerifyIDToken", "Auth.GetUser", "users.Get"}

\* C22: a run of RequireAuth or OptionalAuth leaves the users and the
\* registrations collections as they were, whatever its outcome, and makes
\* no call other than the verification, the record fetch and the profile
\* read.
C22_ResolutionWritesNothing ==
  [][mw' # mw
     => /\ users' = users
        /\ registrations' = registrations
        /\ \A i \in 1..Len(Head(mw').calls) : Head(mw').calls[i] \in ReadCalls]_vars

\* RequireAuth has let u1 through after reading its profile.
C22_Witness ==
  /\ Ran("require") /\ ~Head(mw).aborted
  /\ Head(mw).uid = Some("u1")
  /\ Head(mw).calls[Len(Head(mw).calls)] = "users.Get"
  /\ Readable("u1")

\* The raw error texts of the store's calls.
RawTexts == {StoreErr, IterDone, DecodeErr, "NotFound"}

\* C23: no error response carries the raw error text of the call that
\* failed.
C23_NoRawErrorText ==
  (out # None /\ Head(out).status >= StatusBadRequest)
  => \A i \in 1..Len(Head(out).message) : Head(out).message[i] \notin RawTexts

\* C25: RequireAuth over a readable profile: createdAt, updatedAt,
\* lastLoginAt and the provider tag are the profile's; e-mail, display name,
\* photo and the verified flag are the provider record's.
C25_EnrichmentFields ==
  (/\ Ran("require") /\ Head(mw).user # None /\ Head(mw).up
   /\ Readable(Head(Head(mw).uid)))
  => LET s == Head(Head(mw).uid)
         user == Head(Head(mw).user)
         profile == users[UsersDoc(s)]
     IN  /\ user.createdAt = profile.createdAt
         /\ user.updatedAt = profile.updatedAt
         /\ user.lastLoginAt = profile.lastLoginAt
         /\ user.provider = profile.provider
         /\ user.uid = s
         /\ user.email = UserRecord(s).email
         /\ user.displayName = UserRecord(s).displayName
         /\ user.photoUrl = UserRecord(s).photoUrl
         /\ user.emailVerified = UserRecord(s).emailVerified

\* RequireAuth has let u1 through over a profile whose e-mail, name and
\* photo are not the provider's.
C25_Witness ==
  /\ Ran("require") /\ Head(mw).user # None /\ Head(mw).up
  /\ Readable("u1")
  /\ users["u1"].email # UserRecord("u1").email
  /\ Head(Head(mw).user).provider = "password"

\* C26: the profile a login writes has the e-mail, display name, photo and
\* verified flag of the provider's record of the subject.
C26_ProfileMirrorsIdentity ==
  [][\A r \in Reqs :
       (Saving(r) /\ users' # users)
       => LET s == req[r].uid
              profile == users'[UsersDoc(s)]
          IN  /\ profile.email = UserRecord(s).email
              /\ profile.displayName = UserRecord(s).displayName
              /\ profile.photoUrl = UserRecord(s).photoUrl
              /\ profile.emailVerified = UserRecord(s).emailVerified]_vars

\* C24: a listing that answers 200 carries each document of the collection
\* that decodes, once, as stored and with its id, in the order of the ids;
\* a document that does not decode is left out and holds back neither the
\* documents before it nor those after it.
C24_ListAllDecodable ==
  (SentBy("list") /\ Head(out).status = StatusOK)
  => LET regs == Head(out).registrations
         decodable == {d \in DOMAIN registrations : Decodable(registrations[d])}
     IN  /\ Len(regs) = Cardinality(decodable)
         /\ \A i \in 1..Len(regs) :
              /\ regs[i].id \in decodable
              /\ regs[i] = Stored(regs[i].id)
         /\ \A i, j \in 1..Len(regs) : i < j => regs[i].id < regs[j].id

\* A listing has returned the documents before and after one that does not
\* decode.
C24_Witness ==
  /\ SentBy("list") /\ Head(out).status = StatusOK
  /\ Len(Head(out).registrations) = 2
  /\ \E d \in DOMAIN registrations :
       /\ ~Decodable(registrations[d])
       /\ Head(out).registrations[1].id < d
       /\ d < Head(out).registrations[2].id

\* The subject whose request takes this step (none: the clock's).
Actor ==
  IF \E r \in Reqs : req'[r] # req[r]
    THEN LET r == CHOOSE x \in Reqs : req'[x] # req[x] IN
         IF req[r].pc # "idle" THEN req[r].uid ELSE req'[r].uid
  ELSE IF out' # None THEN Head(out').uid
  ELSE ""

\* The documents of regs that subject s owns.
OwnedIn(regs, s) == {d \in DOMAIN regs : "userId" \in DOMAIN regs[d] /\ regs[d].userId = s}

\* C27: a step of a request of subject A leaves the registrations of every
\* other subject B as they were, none created, modified or deleted; a get
\* returns a record of its own subject; no step changes the owner of a
\* stored registration.
C27_SubjectIsolation ==
  [][/\ \A B \in Subjects \ {Actor} :
          /\ OwnedIn(registrations', B) = OwnedIn(registrations, B)
          /\ \A d \in OwnedIn(registrations, B) : registrations'[d] = registrations[d]
     /\ \A d \in DOMAIN registrations \cap DOMAIN registrations' :
          "userId" \in DOMAIN registrations[d]
          => /\ "userId" \in DOMAIN registrations'[d]
             /\ registrations'[d].userId = registrations[d].userId
     /\ (SentBy("get")' /\ Head(out').body # None)
        => Head(Head(out').body).userId = Head(out').uid]_vars

\* u1 has deleted its registration while u2 has one, and u2 has a request in
\* flight.
C27_Witness ==
  /\ SentBy("delete") /\ Head(out).status = StatusOK /\ Head(out).uid = "u1"
  /\ OwnedIn(registrations, "u1") = {}
  /\ OwnedIn(registrations, "u2") # {}
  /\ req["b"].pc # "idle"

\* C28: however the calls of Close interleave, Firestore.Close is called at
\* most once; a call that has returned did so after that close had finished,
\* with the error that close returned; on a nil client or one with no
\* Firestore client every call returns nil.
C28_CloseOnce ==
  /\ client.closes <= 1
  /\ \A p \in Closers :
       client.ret[p] # None
       => IF client.isNil \/ client.Firestore = "none"
            THEN client.ret[p] = Some(NoErr) /\ client.closes = 0
            ELSE /\ client.Firestore = "closed"
                 /\ client.closes = 1
                 /\ client.closed # None
                 /\ client.ret[p] = client.closed

\* C28 witness: Firestore.Close ran once and failed; every goroutine has
\* returned that error, one of them from a second call made after the close.
C28_Witness ==
  /\ client.closes = 1
  /\ client.closed = Some(CloseErr)
  /\ \A p \in Closers : client.ret[p] = Some(CloseErr)
  /\ \E p \in Closers : client.made[p] = 2

====
